---- MODULE Spec2Model ----
(***************************************************************************)
(* A model of the prowlgo client (package prowlgo): construction and       *)
(* validation of a Client, the dispatch call Add/AddWithURL, Verify, the   *)
(* pairing handshake RetrieveToken / RetrieveAPIKey, the response decoding *)
(* step handleResponse and the configuration export Config.                *)
(*                                                                         *)
(* Strings are sequences of one-character strings, so that len(), slicing, *)
(* trimming and concatenation are computed as the code computes them.      *)
(* Time is counted in whole seconds.  A call that goes to the network is   *)
(* two steps of its caller: the request leaves, the response is handled;   *)
(* other callers may take steps in between.  Callers are interchangeable,  *)
(* so the state counts the callers waiting in each operation.              *)
(***************************************************************************)
EXTENDS Integers, Sequences, FiniteSets, Bags, TLC

\* ------------------------------------------------------------------------
\* Bounds of the model
\* ------------------------------------------------------------------------
NumCallers == 2
MaxTime == 1
MaxLogCalls == 2

\* ------------------------------------------------------------------------
\* Program constants
\* ------------------------------------------------------------------------
KeyLen == 40
MaxApplicationLen == 256
MaxEventLen == 1024
MaxDescriptionLen == 10000
MaxURLLen == 256
DefaultRemaining == 1000
PrioEmergency == 2
PrioVeryLow == -2
CodeUnauthorized == 401

\* ------------------------------------------------------------------------
\* Strings
\* ------------------------------------------------------------------------
stringOfLen(n, ch) == [i \in 1..n |-> ch]

IsSpace(ch) == ch \in {" ", "\t", "\n", "\r"}

RECURSIVE firstNonSpace(_, _)
firstNonSpace(s, i) ==
    IF i > Len(s) \/ ~IsSpace(s[i]) THEN i ELSE firstNonSpace(s, i + 1)

RECURSIVE lastNonSpace(_, _)
lastNonSpace(s, i) ==
    IF i < 1 \/ ~IsSpace(s[i]) THEN i ELSE lastNonSpace(s, i - 1)

\* strings.TrimSpace
TrimSpace(s) == SubSeq(s, firstNonSpace(s, 1), lastNonSpace(s, Len(s)))

\* the keys, tokens and texts the callers and the service use
Key1 == stringOfLen(KeyLen, "1")
Key2 == stringOfLen(KeyLen, "2")
IssuedKey == stringOfLen(KeyLen, "3")
ProviderKey0 == stringOfLen(KeyLen, "p")
Token0 == stringOfLen(KeyLen, "t")
ShortString == <<"1", "2", "3", "4", "5">>
ApproveURL == <<"u", "r", "l">>
Empty == <<>>

\* ------------------------------------------------------------------------
\* Config and NewClient
\* ------------------------------------------------------------------------
MkConfig(keys, providerKey, token, application) ==
    [APIKeys |-> keys, ProviderKey |-> providerKey, Token |-> token,
     Application |-> application]

EmptyConfig == MkConfig(<<>>, Empty, Empty, Empty)

\* the zero value of Client: what the variable holds before construction
ZeroClient ==
    [config |-> EmptyConfig, apiKeys |-> {}, apiKeysDirty |-> FALSE,
     unauthorized |-> FALSE, remaining |-> 0, reset |-> 0]

Range(s) == {s[i] : i \in 1..Len(s)}

NoErr == "nil"

\* NewClientErr without the check of the token
NewClientErr_noTokenCheck(config) ==
    IF Len(config.ProviderKey) # KeyLen /\ Len(config.ProviderKey) # 0
    THEN "provider key must either be 40 chars long or undefined"
    ELSE IF Len(config.Application) > MaxApplicationLen
    THEN "application must not exceed 256 chars in length"
    ELSE IF \E i \in 1..Len(config.APIKeys) : Len(config.APIKeys[i]) # KeyLen
    THEN "api key must either be 40 chars long or undefined"
    ELSE NoErr

\* NewClient: the error it returns, NoErr when the config is accepted
NewClientErr(config) ==
    IF Len(config.ProviderKey) # KeyLen /\ Len(config.ProviderKey) # 0
    THEN "provider key must either be 40 chars long or undefined"
    ELSE IF Len(config.Token) # KeyLen /\ Len(config.Token) # 0
    THEN "token must either be 40 chars long or undefined"
    ELSE IF Len(config.Application) > MaxApplicationLen
    THEN "application must not exceed 256 chars in length"
    ELSE IF \E i \in 1..Len(config.APIKeys) : Len(config.APIKeys[i]) # KeyLen
    THEN "api key must either be 40 chars long or undefined"
    ELSE NoErr

\* NewClient that takes the list of keys for clean whatever its length
NewClient_neverDirty(config, t) ==
    LET err == NewClientErr(config)
        apiKeys == Range(config.APIKeys)
    IN  IF err # NoErr
        THEN [clt |-> ZeroClient, err |-> err]
        ELSE [clt |-> [config |-> config,
                       apiKeys |-> apiKeys,
                       apiKeysDirty |-> FALSE,
                       unauthorized |-> FALSE,
                       remaining |-> DefaultRemaining,
                       reset |-> t],
              err |-> NoErr]

\* NewClient that leaves remaining at the zero value
NewClient_zeroRemaining(config, t) ==
    LET err == NewClientErr(config)
        apiKeys == Range(config.APIKeys)
    IN  IF err # NoErr
        THEN [clt |-> ZeroClient, err |-> err]
        ELSE [clt |-> [config |-> config,
                       apiKeys |-> apiKeys,
                       apiKeysDirty |-> Cardinality(apiKeys) # Len(config.APIKeys),
                       unauthorized |-> FALSE,
                       remaining |-> 0,
                       reset |-> t],
              err |-> NoErr]

\* NewClient: the client and the error; the client is the zero value when
\* an error is returned
NewClient(config, t) ==
    LET err == NewClientErr(config)
        apiKeys == Range(config.APIKeys)
    IN  IF err # NoErr
        THEN [clt |-> ZeroClient, err |-> err]
        ELSE [clt |-> [config |-> config,
                       apiKeys |-> apiKeys,
                       apiKeysDirty |-> Cardinality(apiKeys) # Len(config.APIKeys),
                       unauthorized |-> FALSE,
                       remaining |-> DefaultRemaining,
                       reset |-> t],
              err |-> NoErr]

\* ------------------------------------------------------------------------
\* Responses of the service and handleResponse
\* ------------------------------------------------------------------------
\* transport: "neterr" the HTTP call failed, "unreadable" the body could not
\* be read, "badxml" it could not be unmarshalled, "ok" it was decoded.
\* error / success tell whether the decoded document has that element
\* (XMLName.Local is not empty); absent attributes keep their zero value.
MkResponse(transport, closeErr, error, code, success, remaining, resetdate, apikey, token, url) ==
    [transport |-> transport, closeErr |-> closeErr,
     error |-> error, code |-> code,
     success |-> success, remaining |-> remaining, resetdate |-> resetdate,
     apikey |-> apikey, token |-> token, url |-> url]

NoResponse == MkResponse("none", FALSE, FALSE, 0, FALSE, 0, 0, Empty, Empty, Empty)

ErrorResponse(code) ==
    MkResponse("ok", FALSE, TRUE, code, FALSE, 0, 0, Empty, Empty, Empty)

SuccessResponse(remaining, resetdate, apikey, token, url) ==
    MkResponse("ok", FALSE, FALSE, 0, TRUE, remaining, resetdate, apikey, token, url)

Responses ==
    { MkResponse("neterr", FALSE, FALSE, 0, FALSE, 0, 0, Empty, Empty, Empty),
      MkResponse("unreadable", FALSE, FALSE, 0, FALSE, 0, 0, Empty, Empty, Empty),
      MkResponse("badxml", FALSE, FALSE, 0, FALSE, 0, 0, Empty, Empty, Empty),
      ErrorResponse(CodeUnauthorized),
      ErrorResponse(406),
      ErrorResponse(409),
      SuccessResponse(992, 2, Empty, Empty, Empty),
      SuccessResponse(0, 1, Empty, Empty, Empty),
      MkResponse("ok", TRUE, FALSE, 0, TRUE, 992, 2, Empty, Empty, Empty),
      MkResponse("ok", FALSE, TRUE, 406, TRUE, 0, 1, Empty, Empty, Empty),
      SuccessResponse(992, 2, Empty, Token0, ApproveURL),
      SuccessResponse(992, 2, IssuedKey, Empty, Empty) }

\* the success element of a response, as the caller holds it once the
\* response is decoded
SuccessOf(resp) ==
    MkResponse("ok", FALSE, FALSE, 0, resp.success, resp.remaining, resp.resetdate,
               Empty, Empty, Empty)

\* the deferred resp.Body.Close(): a failure to close becomes the error, or
\* is appended to it
closeBody(resp, err) ==
    IF ~resp.closeErr THEN err
    ELSE IF err = NoErr THEN "error closing HTTP response body"
    ELSE err

\* handleResponse that does not record an error 401
handleResponse_ignores401(c, resp) ==
    IF resp.transport = "neterr"
    THEN [clt |-> c, err |-> "HTTP request to prowl server failed"]
    ELSE IF resp.transport = "unreadable"
    THEN [clt |-> c, err |-> closeBody(resp, "can't read HTTP response body")]
    ELSE IF resp.transport = "badxml"
    THEN [clt |-> c, err |-> closeBody(resp, "can't unmarshal xml response from prowl server")]
    ELSE IF resp.error
    THEN [clt |-> c, err |-> closeBody(resp, "prowl returned error code")]
    ELSE IF resp.success
    THEN [clt |-> [c EXCEPT !.reset = resp.resetdate, !.remaining = resp.remaining],
          err |-> closeBody(resp, NoErr)]
    ELSE [clt |-> c, err |-> closeBody(resp, NoErr)]

\* handleResponse that refreshes remaining and leaves reset as it is
handleResponse_keepsReset(c, resp) ==
    IF resp.transport = "neterr"
    THEN [clt |-> c, err |-> "HTTP request to prowl server failed"]
    ELSE IF resp.transport = "unreadable"
    THEN [clt |-> c, err |-> closeBody(resp, "can't read HTTP response body")]
    ELSE IF resp.transport = "badxml"
    THEN [clt |-> c, err |-> closeBody(resp, "can't unmarshal xml response from prowl server")]
    ELSE IF resp.error
    THEN [clt |-> IF resp.code = CodeUnauthorized
                  THEN [c EXCEPT !.unauthorized = TRUE]
                  ELSE c,
          err |-> closeBody(resp, "prowl returned error code")]
    ELSE IF resp.success
    THEN [clt |-> [c EXCEPT !.remaining = resp.remaining],
          err |-> closeBody(resp, NoErr)]
    ELSE [clt |-> c, err |-> closeBody(resp, NoErr)]

\* handleResponse that does not report a failed HTTP request
handleResponse_swallowsNetErr(c, resp) ==
    IF resp.transport = "neterr"
    THEN [clt |-> c, err |-> NoErr]
    ELSE IF resp.transport = "unreadable"
    THEN [clt |-> c, err |-> closeBody(resp, "can't read HTTP response body")]
    ELSE IF resp.transport = "badxml"
    THEN [clt |-> c, err |-> closeBody(resp, "can't unmarshal xml response from prowl server")]
    ELSE IF resp.error
    THEN [clt |-> IF resp.code = CodeUnauthorized
                  THEN [c EXCEPT !.unauthorized = TRUE]
                  ELSE c,
          err |-> closeBody(resp, "prowl returned error code")]
    ELSE IF resp.success
    THEN [clt |-> [c EXCEPT !.reset = resp.resetdate, !.remaining = resp.remaining],
          err |-> closeBody(resp, NoErr)]
    ELSE [clt |-> c, err |-> closeBody(resp, NoErr)]

\* handleResponse that takes every error code for an invalid api key
handleResponse_anyErrorUnauthorized(c, resp) ==
    IF resp.transport = "neterr"
    THEN [clt |-> c, err |-> "HTTP request to prowl server failed"]
    ELSE IF resp.transport = "unreadable"
    THEN [clt |-> c, err |-> closeBody(resp, "can't read HTTP response body")]
    ELSE IF resp.transport = "badxml"
    THEN [clt |-> c, err |-> closeBody(resp, "can't unmarshal xml response from prowl server")]
    ELSE IF resp.error
    THEN [clt |-> [c EXCEPT !.unauthorized = TRUE],
          err |-> closeBody(resp, "prowl returned error code")]
    ELSE IF resp.success
    THEN [clt |-> [c EXCEPT !.reset = resp.resetdate, !.remaining = resp.remaining],
          err |-> closeBody(resp, NoErr)]
    ELSE [clt |-> c, err |-> closeBody(resp, NoErr)]

\* handleResponse that clears the unauthorized flag on a success element
handleResponse_forgives(c, resp) ==
    IF resp.transport = "neterr"
    THEN [clt |-> c, err |-> "HTTP request to prowl server failed"]
    ELSE IF resp.transport = "unreadable"
    THEN [clt |-> c, err |-> closeBody(resp, "can't read HTTP response body")]
    ELSE IF resp.transport = "badxml"
    THEN [clt |-> c, err |-> closeBody(resp, "can't unmarshal xml response from prowl server")]
    ELSE IF resp.error
    THEN [clt |-> IF resp.code = CodeUnauthorized
                  THEN [c EXCEPT !.unauthorized = TRUE]
                  ELSE c,
          err |-> closeBody(resp, "prowl returned error code")]
    ELSE IF resp.success
    THEN [clt |-> [c EXCEPT !.reset = resp.resetdate, !.remaining = resp.remaining,
                            !.unauthorized = FALSE],
          err |-> closeBody(resp, NoErr)]
    ELSE [clt |-> c, err |-> closeBody(resp, NoErr)]

handleResponse(c, resp) ==
    IF resp.transport = "neterr"
    THEN [clt |-> c, err |-> "HTTP request to prowl server failed"]
    ELSE IF resp.transport = "unreadable"
    THEN [clt |-> c, err |-> closeBody(resp, "can't read HTTP response body")]
    ELSE IF resp.transport = "badxml"
    THEN [clt |-> c, err |-> closeBody(resp, "can't unmarshal xml response from prowl server")]
    ELSE IF resp.error
    THEN [clt |-> IF resp.code = CodeUnauthorized
                  THEN [c EXCEPT !.unauthorized = TRUE]
                  ELSE c,
          err |-> closeBody(resp, "prowl returned error code")]
    ELSE IF resp.success
    THEN [clt |-> [c EXCEPT !.reset = resp.resetdate, !.remaining = resp.remaining],
          err |-> closeBody(resp, NoErr)]
    ELSE [clt |-> c, err |-> closeBody(resp, NoErr)]

\* ------------------------------------------------------------------------
\* Add / AddWithURL
\* ------------------------------------------------------------------------
MkArgs(prio, event, description, withURL, key) ==
    [prio |-> prio, event |-> event, description |-> description,
     withURL |-> withURL, key |-> key]

NoArgs == MkArgs(0, Empty, Empty, Empty, Empty)

MkRequest(endpoint, apikey, providerkey, token, priority, application, event, description, url) ==
    [endpoint |-> endpoint, apikey |-> apikey, providerkey |-> providerkey,
     token |-> token, priority |-> priority, application |-> application,
     event |-> event, description |-> description, url |-> url]

NoRequest == MkRequest("none", Empty, Empty, Empty, 0, Empty, Empty, Empty, Empty)

\* the orders in which a range over the map apiKeys may visit its keys
Orders(S) == {o \in [1..Cardinality(S) -> S] : Range(o) = S}

RECURSIVE joinKeys(_, _, _)
joinKeys(order, i, n) ==
    IF i > Len(order) THEN Empty
    ELSE order[i] \o (IF i - 1 < n - 1 THEN <<",">> ELSE Empty)
                  \o joinKeys(order, i + 1, n)

\* makeAPIKeyRequestArgument: the keys of the map in the order visited, a
\* comma after each one whose index is below len(config.APIKeys)-1
makeAPIKeyRequestArgument(c, order) == joinKeys(order, 1, Len(c.config.APIKeys))

\* AddPrecondition without the check of the URL's length
AddPrecondition_noURLCheck(c, a, t) ==
    IF c.unauthorized
    THEN "the api key is know to be invalid"
    ELSE IF Len(c.config.APIKeys) = 0
    THEN "a valid api key is required for add operation"
    ELSE IF a.prio < PrioVeryLow \/ a.prio > PrioEmergency
    THEN "priority argument must be in the range -2..2"
    ELSE IF Len(a.event) > MaxEventLen
    THEN "event argument must not exceed 1024 chars"
    ELSE IF Len(a.description) > MaxDescriptionLen
    THEN "description argument must not exceed 10000 chars"
    ELSE IF c.remaining <= 0 /\ c.reset > t
    THEN "api requests spent"
    ELSE NoErr

\* AddPrecondition with the priority range one too wide
AddPrecondition_widePriority(c, a, t) ==
    IF c.unauthorized
    THEN "the api key is know to be invalid"
    ELSE IF Len(c.config.APIKeys) = 0
    THEN "a valid api key is required for add operation"
    ELSE IF a.prio < PrioVeryLow - 1 \/ a.prio > PrioEmergency + 1
    THEN "priority argument must be in the range -2..2"
    ELSE IF Len(a.event) > MaxEventLen
    THEN "event argument must not exceed 1024 chars"
    ELSE IF Len(a.description) > MaxDescriptionLen
    THEN "description argument must not exceed 10000 chars"
    ELSE IF Len(a.withURL) > MaxURLLen
    THEN "withURL argument must not exceed 512 chars"
    ELSE IF c.remaining <= 0 /\ c.reset > t
    THEN "api requests spent"
    ELSE NoErr

\* AddPrecondition that rejects only when remaining is below zero
AddPrecondition_belowZero(c, a, t) ==
    IF c.unauthorized
    THEN "the api key is know to be invalid"
    ELSE IF Len(c.config.APIKeys) = 0
    THEN "a valid api key is required for add operation"
    ELSE IF a.prio < PrioVeryLow \/ a.prio > PrioEmergency
    THEN "priority argument must be in the range -2..2"
    ELSE IF Len(a.event) > MaxEventLen
    THEN "event argument must not exceed 1024 chars"
    ELSE IF Len(a.description) > MaxDescriptionLen
    THEN "description argument must not exceed 10000 chars"
    ELSE IF Len(a.withURL) > MaxURLLen
    THEN "withURL argument must not exceed 512 chars"
    ELSE IF c.remaining < 0 /\ c.reset > t
    THEN "api requests spent"
    ELSE NoErr

\* the local checks of AddWithURL, in the order of the code; t is time.Now()
\* AddPrecondition that rejects whenever no call remains, whatever the time
AddPrecondition_noResetCheck(c, a, t) ==
    IF c.unauthorized
    THEN "the api key is know to be invalid"
    ELSE IF Len(c.config.APIKeys) = 0
    THEN "a valid api key is required for add operation"
    ELSE IF a.prio < PrioVeryLow \/ a.prio > PrioEmergency
    THEN "priority argument must be in the range -2..2"
    ELSE IF Len(a.event) > MaxEventLen
    THEN "event argument must not exceed 1024 chars"
    ELSE IF Len(a.description) > MaxDescriptionLen
    THEN "description argument must not exceed 10000 chars"
    ELSE IF Len(a.withURL) > MaxURLLen
    THEN "withURL argument must not exceed 512 chars"
    ELSE IF c.remaining <= 0
    THEN "api requests spent"
    ELSE NoErr

AddPrecondition(c, a, t) ==
    IF c.unauthorized
    THEN "the api key is know to be invalid"
    ELSE IF Len(c.config.APIKeys) = 0
    THEN "a valid api key is required for add operation"
    ELSE IF a.prio < PrioVeryLow \/ a.prio > PrioEmergency
    THEN "priority argument must be in the range -2..2"
    ELSE IF Len(a.event) > MaxEventLen
    THEN "event argument must not exceed 1024 chars"
    ELSE IF Len(a.description) > MaxDescriptionLen
    THEN "description argument must not exceed 10000 chars"
    ELSE IF Len(a.withURL) > MaxURLLen
    THEN "withURL argument must not exceed 512 chars"
    ELSE IF c.remaining <= 0 /\ c.reset > t
    THEN "api requests spent"
    ELSE NoErr

\* AddDescription that leaves no room for the dots and the space
AddDescription_noEllipsisRoom(a) ==
    LET description == TrimSpace(a.description)
        withURL == TrimSpace(a.withURL)
    IN  IF Len(withURL) > 0
        THEN (IF Len(description) + Len(withURL) + 4 > MaxDescriptionLen
              THEN TrimSpace(SubSeq(description, 1,
                                    MaxDescriptionLen - Len(withURL)))
                   \o <<".", ".", ".">>
              ELSE description)
             \o <<" ">> \o withURL
        ELSE description

\* the description that is transmitted
AddDescription(a) ==
    LET description == TrimSpace(a.description)
        withURL == TrimSpace(a.withURL)
    IN  IF Len(withURL) > 0
        THEN (IF Len(description) + Len(withURL) + 4 > MaxDescriptionLen
              THEN TrimSpace(SubSeq(description, 1,
                                    MaxDescriptionLen - Len(withURL) - 4))
                   \o <<".", ".", ".">>
              ELSE description)
             \o <<" ">> \o withURL
        ELSE description

AddRequest(c, a, order) ==
    MkRequest("add", makeAPIKeyRequestArgument(c, order), c.config.ProviderKey,
              Empty, a.prio, c.config.Application, TrimSpace(a.event),
              AddDescription(a), TrimSpace(a.withURL))

\* AddWithURL from the response up to its return statement: handleResponse
\* and, without an error, the second assignment of reset and remaining.
\* The return statement reads clt.remaining afterwards (see ReturnAdd).
AddFinish(c, resp) ==
    LET h == handleResponse(c, resp)
    IN  IF h.err # NoErr
        THEN [clt |-> h.clt, err |-> h.err]
        ELSE [clt |-> IF resp.success
                      THEN [h.clt EXCEPT !.reset = resp.resetdate,
                                         !.remaining = resp.remaining]
                      ELSE h.clt,
              err |-> NoErr]

\* ------------------------------------------------------------------------
\* Verify
\* ------------------------------------------------------------------------
\* VerifyPrecondition that lets the empty string pass
VerifyPrecondition_acceptsEmpty(c, apiKey) ==
    IF Len(apiKey) # KeyLen /\ Len(apiKey) # 0
    THEN "apiKey argument must be exactly 40 chars long"
    ELSE NoErr

VerifyPrecondition(c, apiKey) ==
    IF Len(apiKey) # KeyLen
    THEN "apiKey argument must be exactly 40 chars long"
    ELSE NoErr

VerifyRequest(c, apiKey) ==
    MkRequest("verify", apiKey,
              IF Len(c.config.ProviderKey) = KeyLen THEN c.config.ProviderKey ELSE Empty,
              Empty, 0, Empty, Empty, Empty, Empty)

VerifyFinish(c, resp) ==
    LET h == handleResponse(c, resp)
    IN  [clt |-> h.clt, err |-> h.err, ret |-> h.clt.remaining]

\* ------------------------------------------------------------------------
\* RetrieveToken / RetrieveAPIKey
\* ------------------------------------------------------------------------
RetrieveTokenPrecondition(c) ==
    IF Len(c.config.ProviderKey) # KeyLen
    THEN "provider key is required for retrieve token operation"
    ELSE NoErr

RetrieveTokenRequest(c) ==
    MkRequest("retrieve/token", Empty, c.config.ProviderKey, Empty, 0, Empty,
              Empty, Empty, Empty)

RetrieveTokenFinish(c, resp) ==
    LET h == handleResponse(c, resp)
    IN  IF h.err # NoErr
        THEN [clt |-> h.clt, err |-> h.err, str |-> Empty]
        ELSE [clt |-> [h.clt EXCEPT !.config.Token = resp.token],
              err |-> NoErr, str |-> resp.url]

\* RetrieveAPIKeyPrecondition without the check of the token
RetrieveAPIKeyPrecondition_noTokenCheck(c) ==
    IF Len(c.config.ProviderKey) # KeyLen
    THEN "provider key is required for retrieve token operation"
    ELSE NoErr

RetrieveAPIKeyPrecondition(c) ==
    IF Len(c.config.Token) # KeyLen
    THEN "token is required for retrieve token operation"
    ELSE IF Len(c.config.ProviderKey) # KeyLen
    THEN "provider key is required for retrieve token operation"
    ELSE NoErr

RetrieveAPIKeyRequest(c) ==
    MkRequest("retrieve/apikey", Empty, c.config.ProviderKey, c.config.Token,
              0, Empty, Empty, Empty, Empty)

\* clt.apiKeys[apiKey] = true is executed with the named result apiKey, which
\* still holds its zero value there; the key of the response is returned
RetrieveAPIKeyFinish(c, resp) ==
    LET h == handleResponse(c, resp)
        apiKey == Empty
    IN  IF h.err # NoErr
        THEN [clt |-> h.clt, err |-> h.err, str |-> Empty]
        ELSE [clt |-> [h.clt EXCEPT !.apiKeys = @ \cup {apiKey}],
              err |-> NoErr, str |-> resp.apikey]

\* ------------------------------------------------------------------------
\* Config, AddAPIKey, RemoveAPIKey
\* ------------------------------------------------------------------------
\* Config, run under the client's lock; order is the order in which the
\* range over apiKeys visits the keys
Config(c, order) ==
    LET c2 == IF c.apiKeysDirty
              THEN [c EXCEPT !.config.APIKeys = order, !.apiKeysDirty = FALSE]
              ELSE [c EXCEPT !.apiKeysDirty = FALSE]
    IN  [clt |-> c2, cfg |-> c2.config]

\* KeyPrecondition that lets the empty string pass
KeyPrecondition_acceptsEmpty(key) ==
    IF Len(key) # KeyLen /\ Len(key) # 0 THEN "api key must be 40 chars long" ELSE NoErr

KeyPrecondition(key) ==
    IF Len(key) # KeyLen THEN "api key must be 40 chars long" ELSE NoErr

\* AddAPIKey that takes a key it already has for an error
AddAPIKey_rejectsDuplicate(c, key) ==
    IF KeyPrecondition(key) # NoErr
    THEN [clt |-> c, err |-> KeyPrecondition(key)]
    ELSE IF key \in c.apiKeys
    THEN [clt |-> c, err |-> "api key already known"]
    ELSE [clt |-> [c EXCEPT !.apiKeys = @ \cup {key}, !.apiKeysDirty = TRUE],
          err |-> NoErr]

AddAPIKey(c, key) ==
    IF KeyPrecondition(key) # NoErr
    THEN [clt |-> c, err |-> KeyPrecondition(key)]
    ELSE IF key \in c.apiKeys
    THEN [clt |-> c, err |-> NoErr]
    ELSE [clt |-> [c EXCEPT !.apiKeys = @ \cup {key}, !.apiKeysDirty = TRUE],
          err |-> NoErr]

\* RemoveAPIKey that does not mark the set as changed
RemoveAPIKey_keepsClean(c, key) ==
    IF KeyPrecondition(key) # NoErr
    THEN [clt |-> c, err |-> KeyPrecondition(key)]
    ELSE IF key \notin c.apiKeys
    THEN [clt |-> c, err |-> NoErr]
    ELSE [clt |-> [c EXCEPT !.apiKeys = @ \ {key}],
          err |-> NoErr]

RemoveAPIKey(c, key) ==
    IF KeyPrecondition(key) # NoErr
    THEN [clt |-> c, err |-> KeyPrecondition(key)]
    ELSE IF key \notin c.apiKeys
    THEN [clt |-> c, err |-> NoErr]
    ELSE [clt |-> [c EXCEPT !.apiKeys = @ \ {key}, !.apiKeysDirty = TRUE],
          err |-> NoErr]

\* ------------------------------------------------------------------------
\* Inputs
\* ------------------------------------------------------------------------
Application0 == <<"X">>

InitConfigs ==
    { EmptyConfig,
      MkConfig(<<Key2>>, Empty, Empty, stringOfLen(MaxApplicationLen, "x")),
      MkConfig(<<Key1, Key1>>, ProviderKey0, Token0, Application0),
      MkConfig(<<>>, ProviderKey0, Empty, Application0),
      MkConfig(<<>>, Empty, ShortString, Empty),
      MkConfig(<<>>, ShortString, Token0, Empty),
      MkConfig(<<>>, ProviderKey0, stringOfLen(KeyLen + 1, "t"), Empty),
      MkConfig(<<>>, ProviderKey0, Token0, stringOfLen(MaxApplicationLen + 1, "x")),
      MkConfig(<<Empty, stringOfLen(KeyLen + 2, "1")>>, ProviderKey0, Token0, Application0),
      MkConfig(<<Key1, stringOfLen(KeyLen - 1, "1")>>, Empty, Empty, Application0) }

Event0 == <<"E", "v", "e", "n", "t">>
Text0 == <<"T", "E", "X", "T">>
URL0 == <<"h", "t", "t", "p", ":", "/", "/", "U", "R", "L", "/">>

AddArgs ==
    { MkArgs(p, Event0, Text0, Empty, Empty) : p \in {-3, -2, 0, 2, 3} }
    \cup { MkArgs(0, e, Text0, Empty, Empty) :
             e \in {stringOfLen(MaxEventLen, "e"), stringOfLen(MaxEventLen + 1, "e")} }
    \cup { MkArgs(0, Event0, d, Empty, Empty) :
             d \in {<<" ", "a", " ">>, stringOfLen(MaxDescriptionLen + 1, "d")} }
    \cup { MkArgs(0, Event0, Text0, u, Empty) :
             u \in {URL0, stringOfLen(MaxURLLen, "u"), stringOfLen(MaxURLLen + 1, "u")} }
    \cup { MkArgs(0, Event0, stringOfLen(9970, "d"), stringOfLen(100, "u"), Empty) }
    \cup { MkArgs(0, Event0, d, URL0, Empty) :
             d \in {stringOfLen(MaxDescriptionLen - Len(URL0) - 4, "d"),
                    stringOfLen(MaxDescriptionLen - Len(URL0) - 3, "d"),
                    stringOfLen(MaxDescriptionLen - 20, "d")
                        \o stringOfLen(10, " ") \o stringOfLen(10, "d")} }

KeyArgs == {Key1, Empty, stringOfLen(KeyLen + 1, "x")}

\* ------------------------------------------------------------------------
\* State
\* ------------------------------------------------------------------------
Ops == {"Add", "Verify", "RetrieveToken", "RetrieveAPIKey"}

VARIABLES
    built,      \* "no" before NewClient, then "ok" or "failed"
    clt,        \* the Client
    waiting,    \* per network operation: the callers whose request is out and
                \* whose response has not been handled yet
    reading,    \* the Add calls that have handled their response without
                \* an error and have not yet executed their return statement
                \* (a bag of the success element each one was answered with)
    now,        \* time.Now(), in seconds
    last,       \* the step taken last: the call, its arguments, the request
                \* it put on the network, the response it got, what it returned
    add401,     \* an Add call of this client has received an error 401
    logs,       \* the calls of Log and LogSync, in the order they were made:
                \* for each one where its caller is, where its dispatch task
                \* is, and what is in its channel sent
    logger,     \* the lines written to config.Logger: for each call of Log
                \* and LogSync the lines it wrote, in the order it wrote them
    exporting,  \* the call of Config that holds the lock: where it is, and
                \* the length of the slice it made
    writing     \* the calls that have begun to store the success element of
                \* their response and have not stored all of it yet (a bag:
                \* per call the operation, the element, the next statement)

vars == <<built, clt, waiting, reading, now, last, add401, logs, logger, exporting,
         writing>>

MkExport(pc, n) == [pc |-> pc, n |-> n]

\* no call of Config holds the lock
NoExport == MkExport("idle", 0)

RECURSIVE Sum(_, _)
Sum(f, S) ==
    IF S = {} THEN 0
    ELSE LET x == CHOOSE x \in S : TRUE IN f[x] + Sum(f, S \ {x})

MkStep(kind, op, args, req, resp, err, ret, str, cfg) ==
    [kind |-> kind, op |-> op, args |-> args, req |-> req,
     resp |-> resp, err |-> err, ret |-> ret, str |-> str, cfg |-> cfg]

\* no step is being looked at: the step taken last has been taken note of
NoStep == MkStep("none", "none", NoArgs, NoRequest, NoResponse, NoErr, 0, Empty,
                 EmptyConfig)

\* a caller is free to start a call
CallerFree ==
    /\ built = "ok"
    /\ last = NoStep
    /\ Sum(waiting, Ops) + BagCardinality(reading) < NumCallers

\* a call that returned without a network request
Local(op, args, err, ret, str, cfg) ==
    MkStep("local", op, args, NoRequest, NoResponse, err, ret, str, cfg)

\* a call that put its request on the network
Sent(op, args, req) ==
    MkStep("send", op, args, req, NoResponse, NoErr, 0, Empty, EmptyConfig)

\* a call that has handled its response and has not returned yet
Handled(op, resp, err) ==
    MkStep("handled", op, NoArgs, NoRequest, resp, err, 0, Empty, EmptyConfig)

\* a call that returned after its response
Returned(op, resp, err, ret, str) ==
    MkStep("return", op, NoArgs, NoRequest, resp, err, ret, str, EmptyConfig)

Init ==
    /\ built = "no"
    /\ clt = ZeroClient
    /\ waiting = [op \in Ops |-> 0]
    /\ reading = EmptyBag
    /\ now = 0
    /\ last = NoStep
    /\ add401 = FALSE
    /\ logs = <<>>
    /\ logger = <<>>
    /\ exporting = NoExport
    /\ writing = EmptyBag

\* ------------------------------------------------------------------------
\* Actions
\* ------------------------------------------------------------------------
Construct ==
    /\ built = "no"
    /\ last = NoStep
    /\ \E config \in InitConfigs :
         LET r == NewClient(config, now)
         IN  /\ clt' = r.clt
             /\ built' = IF r.err = NoErr THEN "ok" ELSE "failed"
             /\ last' = MkStep("new", "NewClient", NoArgs, NoRequest, NoResponse,
                               r.err, 0, Empty, config)
    /\ UNCHANGED <<writing, exporting, logs, logger, waiting, reading, now, add401>>

\* the common shape of the four network calls, up to the request
Call(op, args, err, req, ret) ==
    IF err # NoErr
    THEN /\ last' = Local(op, args, err, ret, Empty, EmptyConfig)
         /\ UNCHANGED waiting
    ELSE /\ last' = Sent(op, args, req)
         /\ waiting' = [waiting EXCEPT ![op] = @ + 1]

CallAdd ==
    /\ CallerFree
    /\ \E a \in AddArgs, order \in Orders(clt.apiKeys) :
         Call("Add", a, AddPrecondition(clt, a, now), AddRequest(clt, a, order),
              clt.remaining)
    /\ UNCHANGED <<writing, exporting, logs, logger, built, clt, reading, now, add401>>

\* AddWithURL takes its response: handleResponse and the assignments that
\* follow it. With an error it returns clt.remaining and the error at once;
\* without one its return statement is still to come (ReturnAdd).
HandleAdd ==
    /\ last = NoStep
    /\ waiting["Add"] > 0
    /\ \E resp \in Responses :
         LET r == AddFinish(clt, resp)
         IN  /\ clt' = r.clt
             /\ IF r.err # NoErr
                THEN /\ last' = Returned("Add", resp, r.err, r.clt.remaining, Empty)
                     /\ reading' = reading
                ELSE /\ last' = Handled("Add", resp, NoErr)
                     /\ reading' = reading (+) SetToBag({SuccessOf(resp)})
             /\ add401' = (add401 \/ (resp.transport = "ok" /\ resp.error
                                      /\ resp.code = CodeUnauthorized))
    /\ waiting' = [waiting EXCEPT !["Add"] = @ - 1]
    /\ UNCHANGED <<writing, exporting, logs, logger, built, now>>

\* the last statement of AddWithURL, return clt.remaining, nil: it reads
\* the field, outside any lock, as it is when the statement is executed
ReturnAdd ==
    /\ last = NoStep
    /\ \E e \in BagToSet(reading) :
         /\ reading' = reading (-) SetToBag({e})
         /\ last' = Returned("Add", e, NoErr, clt.remaining, Empty)
    /\ UNCHANGED <<writing, exporting, logs, logger, built, clt, waiting, now, add401>>

CallVerify ==
    /\ CallerFree
    /\ \E apiKey \in KeyArgs :
         Call("Verify", MkArgs(0, Empty, Empty, Empty, apiKey),
              VerifyPrecondition(clt, apiKey), VerifyRequest(clt, apiKey),
              clt.remaining)
    /\ UNCHANGED <<writing, exporting, logs, logger, built, clt, reading, now, add401>>

ReturnVerify ==
    /\ last = NoStep
    /\ waiting["Verify"] > 0
    /\ \E resp \in Responses :
         LET r == VerifyFinish(clt, resp)
         IN  /\ clt' = r.clt
             /\ last' = Returned("Verify", resp, r.err, r.ret, Empty)
    /\ waiting' = [waiting EXCEPT !["Verify"] = @ - 1]
    /\ UNCHANGED <<writing, exporting, logs, logger, built, reading, now, add401>>

CallRetrieveToken ==
    /\ CallerFree
    /\ Call("RetrieveToken", NoArgs, RetrieveTokenPrecondition(clt),
            RetrieveTokenRequest(clt), 0)
    /\ UNCHANGED <<writing, exporting, logs, logger, built, clt, reading, now, add401>>

ReturnRetrieveToken ==
    /\ last = NoStep
    /\ waiting["RetrieveToken"] > 0
    /\ \E resp \in Responses :
         LET r == RetrieveTokenFinish(clt, resp)
         IN  /\ clt' = r.clt
             /\ last' = Returned("RetrieveToken", resp, r.err, 0, r.str)
    /\ waiting' = [waiting EXCEPT !["RetrieveToken"] = @ - 1]
    /\ UNCHANGED <<writing, exporting, logs, logger, built, reading, now, add401>>

CallRetrieveAPIKey ==
    /\ CallerFree
    /\ Call("RetrieveAPIKey", NoArgs, RetrieveAPIKeyPrecondition(clt),
            RetrieveAPIKeyRequest(clt), 0)
    /\ UNCHANGED <<writing, exporting, logs, logger, built, clt, reading, now, add401>>

ReturnRetrieveAPIKey ==
    /\ last = NoStep
    /\ waiting["RetrieveAPIKey"] > 0
    /\ \E resp \in Responses :
         LET r == RetrieveAPIKeyFinish(clt, resp)
         IN  /\ clt' = r.clt
             /\ last' = Returned("RetrieveAPIKey", resp, r.err, 0, r.str)
    /\ waiting' = [waiting EXCEPT !["RetrieveAPIKey"] = @ - 1]
    /\ UNCHANGED <<writing, exporting, logs, logger, built, reading, now, add401>>

CallConfig ==
    /\ CallerFree
    /\ \E order \in Orders(clt.apiKeys) :
         LET r == Config(clt, order)
         IN  /\ clt' = r.clt
             /\ last' = Local("Config", NoArgs, NoErr, 0, Empty, r.cfg)
    /\ UNCHANGED <<writing, exporting, logs, logger, built, waiting, reading, now, add401>>

CallAddAPIKey ==
    /\ CallerFree
    /\ \E key \in KeyArgs :
         LET r == AddAPIKey(clt, key)
         IN  /\ clt' = r.clt
             /\ last' = Local("AddAPIKey", MkArgs(0, Empty, Empty, Empty, key),
                              r.err, 0, Empty, EmptyConfig)
    /\ UNCHANGED <<writing, exporting, logs, logger, built, waiting, reading, now, add401>>

CallRemoveAPIKey ==
    /\ CallerFree
    /\ \E key \in KeyArgs :
         LET r == RemoveAPIKey(clt, key)
         IN  /\ clt' = r.clt
             /\ last' = Local("RemoveAPIKey", MkArgs(0, Empty, Empty, Empty, key),
                              r.err, 0, Empty, EmptyConfig)
    /\ UNCHANGED <<writing, exporting, logs, logger, built, waiting, reading, now, add401>>

\* time passes
Tick ==
    /\ last = NoStep
    /\ now < MaxTime
    /\ now' = now + 1
    /\ UNCHANGED <<writing, exporting, logs, logger, built, clt, waiting, reading, last, add401>>

\* the step taken last is taken note of; it changes nothing in the program
Noted ==
    /\ last # NoStep
    /\ last' = NoStep
    /\ UNCHANGED <<writing, exporting, logs, logger, built, clt, waiting, reading, now, add401>>

Next ==
    \/ Construct
    \/ Tick
    \/ CallAdd
    \/ HandleAdd
    \/ ReturnAdd
    \/ CallVerify
    \/ ReturnVerify
    \/ CallRetrieveToken
    \/ ReturnRetrieveToken
    \/ CallRetrieveAPIKey
    \/ ReturnRetrieveAPIKey
    \/ CallConfig
    \/ CallAddAPIKey
    \/ CallRemoveAPIKey
    \/ Noted

Spec == Init /\ [][Next]_vars

\* ------------------------------------------------------------------------
\* Log / LogSync
\* ------------------------------------------------------------------------
defaultToProwlLabel == <<"(", "c", "o", "p", "i", "e", "d", " ", "t", "o", " ", "p", "r", "o", "w", "l", ")">>

\* what Log and LogSync are called with: a message that is sent, and a
\* priority Add rejects with a title and a body long enough to be shortened
\* in the error line
LogArgs ==
    { MkArgs(0, Event0, Text0, Empty, Empty),
      MkArgs(3, stringOfLen(13, "e"), stringOfLen(23, "m"), Empty, Empty) }

\* a line of the logger: which of the three lines of logWait it is, and its
\* text (of the error line the title and the body it quotes)
MkLine(kind, text) == [kind |-> kind, text |-> text]

\* the first line of logWait without the label
logLine_noLabel(a) == a.event \o <<":", " ">> \o a.description

\* the first line of logWait: event + ": " + message + " " + label
logLine(a) ==
    a.event \o <<":", " ">> \o a.description \o <<" ">> \o defaultToProwlLabel

\* at most max characters: the first max-3, trimmed, and three dots
Shorten(str, max) ==
    IF Len(str) > max
    THEN TrimSpace(SubSeq(str, 1, max - 3)) \o <<".", ".", ".">>
    ELSE str

\* prowlf that writes nothing when Add fails
prowlf_silent(a, err) == <<>>

\* prowlf after Add has returned err: the lines it writes to the logger
prowlf(a, err) ==
    IF err # NoErr
    THEN << MkLine("error",
                   Shorten(a.event, 10) \o <<":", " ">> \o Shorten(a.description, 20)) >>
    ELSE <<>>

\* a call of Log or LogSync: caller is where the caller is ("select",
\* "inline", "returned", "timedout"), task where prowlf is ("started",
\* "sent", "finished"), sent the number of values in the channel sent,
\* failed whether Add returned an error to prowlf
MkLog(mode, args, caller, task, sent, failed) ==
    [mode |-> mode, args |-> args, caller |-> caller, task |-> task,
     sent |-> sent, failed |-> failed]

LogFree == built = "ok" /\ last = NoStep

\* logWait up to the select: the line is written, and prowlf is started as a
\* goroutine (wait = defaultTimeout) or called (wait = waitSync)
logWait(mode, a) ==
    /\ LogFree
    /\ Len(logs) < MaxLogCalls
    /\ logs' = Append(logs, MkLog(mode, a,
                                  IF mode = "LogSync" THEN "inline" ELSE "select",
                                  "started", 0, FALSE))
    /\ logger' = Append(logger, <<MkLine("line", logLine(a))>>)
    /\ UNCHANGED <<writing, exporting, built, clt, waiting, reading, now, last, add401>>

Log == \E a \in LogArgs : logWait("Log", a)

LogSync == \E a \in LogArgs : logWait("LogSync", a)

\* sent <- true on a channel without a buffer: it waits for the receiver
sentRoom_unbuffered(l) == l.caller = "select"

\* sent <- true can proceed: the channel made with make(chan bool, 1) has
\* room for one value, or the select of logWait is there to receive
sentRoom(l) == l.sent < 1 \/ l.caller = "select"

\* prowlf from the return of Add on: the error line, sent <- true, and for
\* LogSync the return of logWait
prowlfDone(i, err) ==
    /\ sentRoom(logs[i])
    /\ logs' = [logs EXCEPT ![i].task = "finished",
                            ![i].sent = @ + 1,
                            ![i].failed = (err # NoErr),
                            ![i].caller = IF @ = "inline" THEN "returned" ELSE @]
    /\ logger' = [logger EXCEPT ![i] = @ \o prowlf(logs[i].args, err)]

\* prowlf calls clt.Add: the local checks and, if they pass, the request
prowlfAdd(i) ==
    /\ LogFree
    /\ i \in DOMAIN logs
    /\ logs[i].task = "started"
    /\ LET err == AddPrecondition(clt, logs[i].args, now)
       IN  IF err # NoErr
           THEN prowlfDone(i, err)
           ELSE /\ logs' = [logs EXCEPT ![i].task = "sent"]
                /\ logger' = logger
    /\ UNCHANGED <<writing, exporting, built, clt, waiting, reading, now, last, add401>>

\* the response to the Add of prowlf
prowlfAnswer(i) ==
    /\ LogFree
    /\ i \in DOMAIN logs
    /\ logs[i].task = "sent"
    /\ \E resp \in Responses :
         LET r == AddFinish(clt, resp)
         IN  /\ clt' = r.clt
             /\ prowlfDone(i, r.err)
             /\ add401' = (add401 \/ (resp.transport = "ok" /\ resp.error
                                      /\ resp.code = CodeUnauthorized))
    /\ UNCHANGED <<writing, exporting, built, waiting, reading, now, last>>

\* the select of logWait takes time.After(wait)
LogTimeout(i) ==
    /\ LogFree
    /\ i \in DOMAIN logs
    /\ logs[i].caller = "select"
    /\ logs' = [logs EXCEPT ![i].caller = "timedout"]
    /\ logger' = [logger EXCEPT ![i] = Append(@, MkLine("timeout", Empty))]
    /\ UNCHANGED <<writing, exporting, built, clt, waiting, reading, now, last, add401>>

\* the select of logWait takes <-sent
LogReceive(i) ==
    /\ LogFree
    /\ i \in DOMAIN logs
    /\ logs[i].caller = "select"
    /\ logs[i].sent > 0
    /\ logs' = [logs EXCEPT ![i].caller = "returned", ![i].sent = @ - 1]
    /\ UNCHANGED <<writing, exporting, built, clt, waiting, reading, now, last, add401, logger>>

NextLog ==
    \/ Construct
    \/ Noted
    \/ Log
    \/ LogSync
    \/ \E i \in 1..MaxLogCalls : prowlfAdd(i)
    \/ \E i \in 1..MaxLogCalls : prowlfAnswer(i)
    \/ \E i \in 1..MaxLogCalls : LogTimeout(i)
    \/ \E i \in 1..MaxLogCalls : LogReceive(i)

SpecLog == Init /\ [][NextLog]_vars

\* a goroutine that can run does run, and a request that is out is answered
\* or fails
FairSpecLog ==
    /\ SpecLog
    /\ \A i \in 1..MaxLogCalls : WF_vars(prowlfAdd(i)) /\ WF_vars(prowlfAnswer(i))

\* ------------------------------------------------------------------------
\* Config, statement by statement
\* ------------------------------------------------------------------------
\* the run-time panic of an index beyond the length of a slice
ErrIndex == "panic: runtime error: index out of range"

\* mutex(enter) can proceed: no call of Config is between its mutex(enter)
\* and its return
LockFree == exporting.pc = "idle"

\* clt.config.APIKeys = make([]string, len(clt.apiKeys))
ConfigMake(c) ==
    [c EXCEPT !.config.APIKeys = [i \in 1..Cardinality(c.apiKeys) |-> Empty]]

\* the range over clt.apiKeys writing into the slice of length n, in the
\* order the range visits the keys, then the reset of the flag and the
\* copy of clt.config; a key beyond the slice's length panics
ConfigRange(c, n, order) ==
    IF Len(order) > n
    THEN [clt |-> [c EXCEPT !.config.APIKeys = SubSeq(order, 1, n)],
          err |-> ErrIndex, cfg |-> EmptyConfig]
    ELSE LET c2 == [c EXCEPT !.config.APIKeys =
                                 order \o [i \in 1..(n - Len(order)) |-> Empty],
                             !.apiKeysDirty = FALSE]
         IN  [clt |-> c2, err |-> NoErr, cfg |-> c2.config]

\* Config takes the lock, tests apiKeysDirty and, if it is set, makes the
\* slice for the keys the map holds at this moment
ConfigEnter ==
    /\ CallerFree
    /\ LockFree
    /\ IF clt.apiKeysDirty
       THEN /\ clt' = ConfigMake(clt)
            /\ exporting' = MkExport("range", Cardinality(clt.apiKeys))
       ELSE /\ clt' = clt
            /\ exporting' = MkExport("copy", 0)
    /\ UNCHANGED <<writing, logs, logger, built, waiting, reading, now, last, add401>>

\* Config fills the slice if it made one, resets the flag, returns
\* clt.config and gives the lock back
ConfigReturn ==
    /\ last = NoStep
    /\ ~LockFree
    /\ exporting' = NoExport
    /\ IF exporting.pc = "range"
       THEN \E order \in Orders(clt.apiKeys) :
              LET r == ConfigRange(clt, exporting.n, order)
              IN  /\ clt' = r.clt
                  /\ last' = Local("Config", NoArgs, r.err, 0, Empty, r.cfg)
       ELSE /\ clt' = [clt EXCEPT !.apiKeysDirty = FALSE]
            /\ last' = Local("Config", NoArgs, NoErr, 0, Empty, clt.config)
    /\ UNCHANGED <<writing, logs, logger, built, waiting, reading, now, add401>>

\* AddAPIKey and RemoveAPIKey run under the lock
LockedAddAPIKey == LockFree /\ CallAddAPIKey

LockedRemoveAPIKey == LockFree /\ CallRemoveAPIKey

\* Config next to the operations that change the configuration
NextConfig ==
    \/ Construct
    \/ Noted
    \/ CallRetrieveToken
    \/ ReturnRetrieveToken
    \/ CallRetrieveAPIKey
    \/ ReturnRetrieveAPIKey
    \/ LockedAddAPIKey
    \/ LockedRemoveAPIKey
    \/ ConfigEnter
    \/ ConfigReturn

SpecConfig == Init /\ [][NextConfig]_vars

\* ------------------------------------------------------------------------
\* Pairing: RetrieveToken, RetrieveAPIKey, then Add
\* ------------------------------------------------------------------------
\* a success response to RetrieveToken whose token is not 40 characters long
ShortTokenResponses == { SuccessResponse(992, 2, Empty, ShortString, ApproveURL) }

\* RetrieveToken takes such a response
ReturnRetrieveTokenShort ==
    /\ last = NoStep
    /\ waiting["RetrieveToken"] > 0
    /\ \E resp \in ShortTokenResponses :
         LET r == RetrieveTokenFinish(clt, resp)
         IN  /\ clt' = r.clt
             /\ last' = Returned("RetrieveToken", resp, r.err, 0, r.str)
    /\ waiting' = [waiting EXCEPT !["RetrieveToken"] = @ - 1]
    /\ UNCHANGED <<writing, exporting, logs, logger, built, reading, now, add401>>

\* a client that gets its token and its key from the service and then
\* sends notifications
NextPairing ==
    \/ Construct
    \/ Noted
    \/ CallRetrieveToken
    \/ ReturnRetrieveToken
    \/ ReturnRetrieveTokenShort
    \/ CallRetrieveAPIKey
    \/ ReturnRetrieveAPIKey
    \/ CallConfig
    \/ CallAdd
    \/ HandleAdd
    \/ ReturnAdd

SpecPairing == Init /\ [][NextPairing]_vars

\* ------------------------------------------------------------------------
\* The success element stored statement by statement
\* ------------------------------------------------------------------------
\* the responses with a success element only, taken without an error
PlainSuccesses ==
    {resp \in Responses : /\ resp.transport = "ok" /\ ~resp.closeErr /\ ~resp.error
                          /\ resp.success /\ resp.apikey = Empty /\ resp.token = Empty}

MkWrite(op, resp, pc) == [op |-> op, resp |-> resp, pc |-> pc]

\* the calls in progress: waiting for their response, storing it, or before
\* their return statement
InProgress == Sum(waiting, Ops) + BagCardinality(writing) + BagCardinality(reading)

RaceAdd == InProgress < NumCallers /\ CallAdd

RaceVerify == InProgress < NumCallers /\ CallVerify

\* handleResponse of an Add or Verify call has decoded a success element and
\* executes clt.reset = time.Unix(response.Success.Resetdate, 0)
StoreReset ==
    /\ last = NoStep
    /\ \E op \in {"Add", "Verify"}, resp \in PlainSuccesses :
         /\ waiting[op] > 0
         /\ waiting' = [waiting EXCEPT ![op] = @ - 1]
         /\ clt' = [clt EXCEPT !.reset = resp.resetdate]
         /\ writing' = writing (+) SetToBag({MkWrite(op, SuccessOf(resp), 415)})
    /\ UNCHANGED <<exporting, logs, logger, built, reading, now, last, add401>>

\* a call in progress executes its next assignment: line 415 of
\* handleResponse (after it Verify returns clt.remaining), and for Add the
\* lines 246 and 247 of AddWithURL (its return statement is ReturnAdd)
StoreNext ==
    /\ last = NoStep
    /\ \E w \in BagToSet(writing) :
         LET rest == writing (-) SetToBag({w})
         IN  IF w.pc = 415
             THEN /\ clt' = [clt EXCEPT !.remaining = w.resp.remaining]
                  /\ IF w.op = "Verify"
                     THEN /\ writing' = rest
                          /\ last' = Returned("Verify", w.resp, NoErr,
                                              w.resp.remaining, Empty)
                     ELSE /\ writing' = rest (+) SetToBag({MkWrite(w.op, w.resp, 246)})
                          /\ last' = last
                  /\ reading' = reading
             ELSE IF w.pc = 246
             THEN /\ clt' = [clt EXCEPT !.reset = w.resp.resetdate]
                  /\ writing' = rest (+) SetToBag({MkWrite(w.op, w.resp, 247)})
                  /\ last' = last
                  /\ reading' = reading
             ELSE /\ clt' = [clt EXCEPT !.remaining = w.resp.remaining]
                  /\ writing' = rest
                  /\ last' = Handled("Add", w.resp, NoErr)
                  /\ reading' = reading (+) SetToBag({w.resp})
    /\ UNCHANGED <<exporting, logs, logger, built, waiting, now, add401>>

\* Add and Verify calls of several goroutines on one client
NextRace ==
    \/ Construct
    \/ Noted
    \/ RaceAdd
    \/ RaceVerify
    \/ StoreReset
    \/ StoreNext
    \/ ReturnAdd

SpecRace == Init /\ [][NextRace]_vars

\* ------------------------------------------------------------------------
\* Properties
\* ------------------------------------------------------------------------
Is401(resp) == resp.transport = "ok" /\ resp.error /\ resp.code = 401

\* the step taken last is a call of Add: either rejected locally or sent
AddCalled == last.op = "Add" /\ last.kind \in {"local", "send"}

RejectedLocally == last.kind = "local" /\ last.err # NoErr

\* C1: once an Add call has received an error response with code 401, every
\* Add call started afterwards returns an error and puts no request on the
\* network.
C1_UnauthorizedIsSticky == (AddCalled /\ add401) => RejectedLocally

C1_Witness ==
    /\ AddCalled /\ add401
    /\ last.kind = "local"
    /\ last.err = "the api key is know to be invalid"

\* C2: a 401 error response received by Verify is returned as an error and
\* does not set the unauthorized flag: when no Add call has received a 401,
\* the flag is still false after that Verify, so a later Add call is not
\* turned away as unauthorized.
C2_VerifyLeavesFlag ==
    (last.kind = "return" /\ last.op = "Verify" /\ Is401(last.resp) /\ ~add401)
        => (last.err # NoErr /\ ~clt.unauthorized)

\* C3: a 401 error response received by RetrieveToken or RetrieveAPIKey never
\* sets the unauthorized flag: when no Add call has received a 401, the flag
\* is false after RetrieveToken or RetrieveAPIKey has returned.
C3_RetrieveLeavesFlag ==
    (last.kind = "return" /\ last.op \in {"RetrieveToken", "RetrieveAPIKey"}
     /\ ~add401)
        => ~clt.unauthorized

\* C4: when RetrieveAPIKey succeeds with the service issuing the device key K,
\* it returns K, the client's set of keys contains K and Config().APIKeys
\* lists K.
C4_IssuedKeyIsStored ==
    (last.kind = "return" /\ last.op = "RetrieveAPIKey" /\ last.err = NoErr
     /\ Len(last.resp.apikey) = 40)
        => /\ last.str = last.resp.apikey
           /\ last.resp.apikey \in clt.apiKeys
           /\ \A order \in Orders(clt.apiKeys) :
                last.resp.apikey \in Range(Config(clt, order).cfg.APIKeys)

\* C5: after RetrieveToken succeeds with the token T, Config().Token is T, and
\* a client constructed from that exported Config holds T and the provider
\* key, so that its RetrieveAPIKey passes the local checks and sends T.
C5_TokenSurvivesExport ==
    (last.kind = "return" /\ last.op = "RetrieveToken" /\ last.err = NoErr
     /\ Len(last.resp.token) = 40)
        => \A order \in Orders(clt.apiKeys) :
             LET cfg == Config(clt, order).cfg
                 other == NewClient(cfg, now)
             IN  /\ cfg.Token = last.resp.token
                 /\ other.err = NoErr
                 /\ other.clt.config.Token = last.resp.token
                 /\ other.clt.config.ProviderKey = clt.config.ProviderKey
                 /\ RetrieveAPIKeyPrecondition(other.clt) = NoErr
                 /\ RetrieveAPIKeyRequest(other.clt).token = last.resp.token

\* C6: in every state the client can reach, NewClient(client.Config())
\* succeeds, and the new client has the same set of keys, the same provider
\* key and the same application name as the original.
C6_ConfigRoundTrip ==
    (last.kind = "local" /\ last.op = "Config")
        => LET other == NewClient(last.cfg, now)
           IN  /\ other.err = NoErr
               /\ other.clt.apiKeys = clt.apiKeys
               /\ other.clt.config.ProviderKey = clt.config.ProviderKey
               /\ other.clt.config.Application = clt.config.Application

\* what the specification says NewClient accepts
Acceptable(config) ==
    /\ Len(config.ProviderKey) \in {0, 40}
    /\ Len(config.Token) \in {0, 40}
    /\ Len(config.Application) <= 256
    /\ \A i \in 1..Len(config.APIKeys) : Len(config.APIKeys[i]) = 40

\* C7: NewClient returns a client and no error exactly when the provider key
\* has length 0 or 40, the token has length 0 or 40, the application name has
\* at most 256 characters and every listed key has exactly 40; in every other
\* case it returns an error and no client.  The empty Config is accepted.
C7_NewClientValidation ==
    last.kind = "new"
        => /\ (last.err = NoErr) <=> Acceptable(last.cfg)
           /\ last.err = NoErr => (built = "ok" /\ clt.config = last.cfg)
           /\ last.err # NoErr => (built = "failed" /\ clt = ZeroClient)
           /\ last.cfg = EmptyConfig => last.err = NoErr

C7_Witness ==
    /\ last.kind = "new"
    /\ Len(last.cfg.ProviderKey) = 40
    /\ Len(last.cfg.Token) = 41
    /\ last.err # NoErr
    /\ built = "failed"

\* a local check of Add fails: the client is unauthorized, no key is
\* configured, or an argument is out of its range
FailsLocalCheck(c, a) ==
    \/ c.unauthorized
    \/ Len(c.config.APIKeys) = 0
    \/ a.prio < -2
    \/ a.prio > 2
    \/ Len(a.event) > 1024
    \/ Len(a.description) > 10000
    \/ Len(a.withURL) > 256

C9_PriorityRange ==
    (AddCalled /\ (last.args.prio < -2 \/ last.args.prio > 2)) => RejectedLocally

C9_Witness ==
    /\ AddCalled
    /\ last.args.prio = 3
    /\ last.err = "priority argument must be in the range -2..2"

\* C10: whenever remaining is <= 0 and the current time is before the reset
\* time, an Add call fails locally with an error and puts no request on the
\* network.
C10_RateLimitedLocally ==
    (AddCalled /\ clt.remaining <= 0 /\ now < clt.reset) => RejectedLocally

C10_Witness ==
    /\ AddCalled
    /\ clt.remaining <= 0 /\ now < clt.reset
    /\ last.err = "api requests spent"

\* the step taken last is the one in which a call took its response and
\* updated the client from it (for a successful Add this is the step before
\* its return statement)
TookResponse ==
    \/ last.kind = "handled"
    \/ last.kind = "return" /\ ~(last.op = "Add" /\ last.err = NoErr)

Decoded(resp) == resp.transport = "ok"

\* C11: after any call (Add, Verify, RetrieveToken, RetrieveAPIKey) has taken
\* a response with a success element and no error element, the client's
\* remaining equals the response's remaining attribute and its reset time
\* equals the response's resetdate.
C11_SuccessRefreshesLimits ==
    (TookResponse /\ Decoded(last.resp) /\ last.resp.success /\ ~last.resp.error)
        => /\ clt.remaining = last.resp.remaining
           /\ clt.reset = last.resp.resetdate

C11_Witness ==
    /\ last.kind = "return"
    /\ last.op = "Verify"
    /\ Decoded(last.resp) /\ last.resp.success /\ ~last.resp.error
    /\ last.resp.remaining = 0 /\ last.resp.resetdate = 1
    /\ clt.remaining = 0 /\ clt.reset = 1

\* C12: an Add call that returns without an error returns the remaining
\* count of the response to that same call, also when other Add or Verify
\* calls run on the same client at the same time.
C12_AddReturnsOwnRemaining ==
    (last.kind = "return" /\ last.op = "Add" /\ last.err = NoErr
     /\ last.resp.success)
        => last.ret = last.resp.remaining

\* C13: whenever a decoded response has a success element, remaining and the
\* reset time are refreshed from it, also when the same response has an error
\* element.
C13_SuccessElementAlwaysRefreshes ==
    (TookResponse /\ Decoded(last.resp) /\ last.resp.success)
        => /\ clt.remaining = last.resp.remaining
           /\ clt.reset = last.resp.resetdate

NotDecoded(resp) == resp.transport \in {"neterr", "unreadable", "badxml"}

\* C14: when a network call fails at transport level or its response body
\* cannot be decoded, the operation returns an error and remaining, the reset
\* time, the unauthorized flag, the set of keys and the token are unchanged;
\* Add and Verify return the remaining value known before.
C14_FailedTransportChangesNothing ==
    [][ (last'.kind = "return" /\ NotDecoded(last'.resp))
            => /\ last'.err # NoErr
               /\ clt'.remaining = clt.remaining
               /\ clt'.reset = clt.reset
               /\ clt'.unauthorized = clt.unauthorized
               /\ clt'.apiKeys = clt.apiKeys
               /\ clt'.config.Token = clt.config.Token
               /\ (last'.op \in {"Add", "Verify"} => last'.ret = clt.remaining) ]_vars

C14_Witness ==
    /\ last.kind = "return"
    /\ last.op = "Add"
    /\ last.resp.transport = "badxml"
    /\ last.err # NoErr
    /\ last.ret = 992
    /\ clt.remaining = 992

VerifyCalled == last.op = "Verify" /\ last.kind \in {"local", "send"}

\* C15: Verify called with a string whose length is not exactly 40 (the empty
\* string included) returns an error and puts no request on the network;
\* with a string of 40 characters it sends the request for that string,
\* whether or not the string is one of the client's keys.
C15_VerifyLengthCheck ==
    VerifyCalled
        => IF Len(last.args.key) # 40
           THEN /\ last.kind = "local"
                /\ last.err # NoErr
                /\ last.req = NoRequest
           ELSE /\ last.kind = "send"
                /\ last.req.endpoint = "verify"
                /\ last.req.apikey = last.args.key

C15_Witness ==
    /\ VerifyCalled
    /\ last.kind = "send"
    /\ Len(last.args.key) = 40
    /\ last.args.key \notin clt.apiKeys
    /\ last.args.key \notin Range(clt.config.APIKeys)

C15_WitnessEmpty ==
    /\ VerifyCalled
    /\ last.args.key = Empty
    /\ RejectedLocally

\* the client lacks what the retrieve operation op needs
LacksCredentials(c, op) ==
    \/ Len(c.config.ProviderKey) # 40
    \/ op = "RetrieveAPIKey" /\ Len(c.config.Token) # 40

\* C16: RetrieveToken on a client without a provider key of 40 characters,
\* and RetrieveAPIKey on a client that lacks a provider key of 40 characters
\* or a token of 40 characters, return an error, put no request on the
\* network and leave the client as it was.
C16_RetrieveNeedsCredentials ==
    [][ (last'.op \in {"RetrieveToken", "RetrieveAPIKey"}
         /\ last'.kind \in {"local", "send"}
         /\ LacksCredentials(clt, last'.op))
            => /\ last'.kind = "local"
               /\ last'.err # NoErr
               /\ last'.req = NoRequest
               /\ waiting' = waiting
               /\ clt' = clt ]_vars

C16_Witness ==
    /\ last.op = "RetrieveAPIKey"
    /\ last.kind = "local"
    /\ Len(clt.config.ProviderKey) = 40
    /\ Len(clt.config.Token) = 0
    /\ last.err # NoErr

\* C17: when RetrieveAPIKey is answered with the error 409 (not yet
\* approved) it returns an error and leaves the token, the provider key, the
\* set of keys and the unauthorized flag as they were, so that the same
\* client can call RetrieveAPIKey again and, answered with the key, gets it.
C17_NotApprovedIsRetryable ==
    [][ (last'.kind = "return" /\ last'.op = "RetrieveAPIKey"
         /\ Decoded(last'.resp) /\ last'.resp.error /\ last'.resp.code = 409)
            => /\ last'.err # NoErr
               /\ clt'.config.Token = clt.config.Token
               /\ clt'.config.ProviderKey = clt.config.ProviderKey
               /\ clt'.apiKeys = clt.apiKeys
               /\ clt'.unauthorized = clt.unauthorized
               /\ RetrieveAPIKeyPrecondition(clt') = RetrieveAPIKeyPrecondition(clt)
               /\ LET again == RetrieveAPIKeyFinish(clt',
                                   SuccessResponse(992, 2, IssuedKey, Empty, Empty))
                  IN  again.err = NoErr /\ again.str = IssuedKey ]_vars

C17_Witness ==
    /\ last.kind = "return"
    /\ last.op = "RetrieveAPIKey"
    /\ last.resp.error /\ last.resp.code = 409
    /\ last.err # NoErr
    /\ ~clt.unauthorized
    /\ RetrieveAPIKeyPrecondition(clt) = NoErr

AddSent == last.op = "Add" /\ last.kind = "send"

\* the body and the URL of the step taken last, trimmed
Body == TrimSpace(last.args.description)
URL == TrimSpace(last.args.withURL)

Dots == <<".", ".", ".">>

\* C18: for every accepted body and non-empty URL the transmitted
\* description is at most 10000 long; when len(body)+len(url)+4 > 10000
\* (after trimming) it is a prefix of the body followed by "...", one space
\* and the complete URL.
C18_DescriptionFits ==
    (AddSent /\ Len(URL) > 0)
        => /\ Len(last.req.description) <= 10000
           /\ (Len(Body) + Len(URL) + 4 > 10000
                 => LET n == Len(last.req.description) - Len(URL) - 4
                    IN  /\ n >= 0
                        /\ n <= Len(Body)
                        /\ last.req.description
                             = SubSeq(Body, 1, n) \o Dots \o <<" ">> \o URL)

\* the body is cut, and cut where white space ends the prefix
C18_Witness ==
    /\ AddSent
    /\ Len(URL) > 0
    /\ Len(Body) + Len(URL) + 4 > 10000
    /\ Len(last.req.description) < 10000
    /\ last.req.description
         = SubSeq(Body, 1, 9980) \o Dots \o <<" ">> \o URL

\* the body is cut to exactly 10000
C18_WitnessFull ==
    /\ AddSent
    /\ Len(Body) + Len(URL) + 4 = 10001
    /\ Len(last.req.description) = 10000

\* C19: when a URL is supplied and the caller opts not to embed it, the
\* transmitted description is the trimmed body unaltered; when the caller
\* opts to embed it and nothing has to be cut, it is the body, one space and
\* the URL. AddWithURL has no parameter for the option, so the property is
\* stated for both choices of the caller.
C19_EmbeddingIsOptional ==
    \A embed \in BOOLEAN :
        (AddSent /\ Len(URL) > 0 /\ Len(Body) + Len(URL) + 4 <= 10000)
            => IF embed
               THEN last.req.description = Body \o <<" ">> \o URL
               ELSE last.req.description = Body

KeyCalled == last.kind = "local" /\ last.op \in {"AddAPIKey", "RemoveAPIKey"}

\* C20: AddAPIKey and RemoveAPIKey called with a string whose length is not
\* exactly 40 (the empty string included) return an error and leave the set
\* of keys unchanged.
C20_KeyLengthCheck ==
    [][ (last'.kind = "local" /\ last'.op \in {"AddAPIKey", "RemoveAPIKey"}
         /\ Len(last'.args.key) # 40)
            => /\ last'.err # NoErr
               /\ clt'.apiKeys = clt.apiKeys
               /\ clt'.config.APIKeys = clt.config.APIKeys ]_vars

C20_Witness ==
    /\ KeyCalled
    /\ last.op = "RemoveAPIKey"
    /\ last.args.key = Empty
    /\ last.err # NoErr

C20_WitnessAdd ==
    /\ KeyCalled
    /\ last.op = "AddAPIKey"
    /\ Len(last.args.key) = 41
    /\ last.err # NoErr
    /\ Key1 \notin clt.apiKeys

\* the lists Config() can export from client c
Exports(c) == {Config(c, order).cfg.APIKeys : order \in Orders(c.apiKeys)}

\* C21: AddAPIKey with a key of 40 characters that is already in the set
\* returns no error and leaves the set of keys, and the length of
\* Config().APIKeys, unchanged.
C21_AddTwiceChangesNothing ==
    [][ (last'.kind = "local" /\ last'.op = "AddAPIKey"
         /\ Len(last'.args.key) = 40 /\ last'.args.key \in clt.apiKeys)
            => /\ last'.err = NoErr
               /\ clt'.apiKeys = clt.apiKeys
               /\ {Len(l) : l \in Exports(clt')} = {Len(l) : l \in Exports(clt)} ]_vars

C21_Witness ==
    /\ KeyCalled
    /\ last.op = "AddAPIKey"
    /\ last.args.key = Key1
    /\ last.err = NoErr
    /\ clt.apiKeys = {Key1}
    /\ ~clt.apiKeysDirty

\* C22: RemoveAPIKey with a key of 40 characters that is not in the set
\* returns no error and leaves the set unchanged; with a key that is in the
\* set it leaves exactly the other keys in Config().APIKeys.
C22_RemoveIsIdempotent ==
    [][ (last'.kind = "local" /\ last'.op = "RemoveAPIKey"
         /\ Len(last'.args.key) = 40)
            => /\ last'.err = NoErr
               /\ IF last'.args.key \notin clt.apiKeys
                  THEN clt'.apiKeys = clt.apiKeys
                  ELSE \A l \in Exports(clt') :
                         /\ Range(l) = clt.apiKeys \ {last'.args.key}
                         /\ Len(l) = Cardinality(clt.apiKeys) - 1 ]_vars

\* a key is removed from a set of two whose list had been exported
C22_Witness ==
    /\ KeyCalled
    /\ last.op = "RemoveAPIKey"
    /\ last.args.key = Key1
    /\ last.err = NoErr
    /\ clt.apiKeys = {Key2}
    /\ Len(clt.config.APIKeys) = 2
    /\ clt.apiKeysDirty

C22_WitnessAbsent ==
    /\ KeyCalled
    /\ last.op = "RemoveAPIKey"
    /\ last.args.key = Key1
    /\ last.err = NoErr
    /\ clt.apiKeys = {Key2}
    /\ ~clt.apiKeysDirty

\* the keys in the order given, one comma between two of them
RECURSIVE CommaJoined(_)
CommaJoined(keys) ==
    IF Len(keys) = 0 THEN Empty
    ELSE IF Len(keys) = 1 THEN keys[1]
    ELSE keys[1] \o <<",">> \o CommaJoined(Tail(keys))

\* C23: in every reachable state the apikey parameter sent by Add lists each
\* key of the current set exactly once, single commas between them, no comma
\* first or last and no empty entry, also when the client was constructed
\* from a list with duplicates and Config() has not been called.
C23_ApikeyParameter ==
    AddSent
        => /\ Empty \notin clt.apiKeys
           /\ \E order \in Orders(clt.apiKeys) :
                last.req.apikey = CommaJoined(order)

\* C24: a client constructed from a list in which the same valid key occurs
\* several times holds that key once: the set has one member per distinct
\* key and Config().APIKeys one entry per distinct key.
C24_DuplicatesCollapse ==
    (last.kind = "new" /\ last.err = NoErr)
        => /\ clt.apiKeys = Range(last.cfg.APIKeys)
           /\ \A l \in Exports(clt) :
                /\ Range(l) = Range(last.cfg.APIKeys)
                /\ Len(l) = Cardinality(Range(last.cfg.APIKeys))

C24_Witness ==
    /\ last.kind = "new"
    /\ last.err = NoErr
    /\ last.cfg.APIKeys = <<Key1, Key1>>
    /\ clt.apiKeys = {Key1}
    /\ Exports(clt) = {<<Key1>>}

\* C25: a client constructed from the exported Config of a client starts
\* with remaining 1000 and the unauthorized flag false, whatever remaining,
\* the reset time and the flag of the exporting client are.
C25_ReconstructionResetsLimits ==
    (last.kind = "local" /\ last.op = "Config")
        => LET r == NewClient(last.cfg, now)
           IN  r.err = NoErr
                 => /\ r.clt.remaining = 1000
                    /\ ~r.clt.unauthorized
                    /\ r.clt.reset = now

C25_Witness ==
    /\ last.kind = "local"
    /\ last.op = "Config"
    /\ clt.unauthorized
    /\ clt.remaining = 0
    /\ NewClient(last.cfg, now).err = NoErr
    /\ NewClient(last.cfg, now).clt.remaining = 1000

\* the kinds of the lines call i has written, in order
Kinds(i) == [k \in DOMAIN logger[i] |-> logger[i][k].kind]

\* call i has written a line of this kind
HasLine(i, kind) == \E k \in DOMAIN logger[i] : logger[i][k].kind = kind

\* C26: LogSync returns only after its dispatch attempt has completed; a
\* failure of the dispatch is not handed to the caller (logWait has no
\* result) and is in the logger by the time LogSync returns.
C26_LogSyncWaitsForDispatch ==
    \A i \in DOMAIN logs :
        (logs[i].mode = "LogSync" /\ logs[i].caller = "returned")
            => /\ logs[i].task = "finished"
               /\ (logs[i].failed => HasLine(i, "error"))

\* LogSync has returned after a response that made Add fail
C26_Witness ==
    \E i \in DOMAIN logs :
        /\ logs[i].mode = "LogSync"
        /\ logs[i].caller = "returned"
        /\ logs[i].failed
        /\ logs[i].args.prio = 0
        /\ Kinds(i) = <<"line", "error">>

\* the wait of call i ended by the timeout
TimedOut(i) == i \in DOMAIN logs /\ logs[i].caller = "timedout"

\* the dispatch task of call i has completed, its error, if any, logged
\* after the timeout line
CompletedLate(i) ==
    /\ TimedOut(i)
    /\ logs[i].task = "finished"
    /\ (logs[i].failed => Kinds(i) = <<"line", "timeout", "error">>)

\* C27: when the wait of Log ends by the timeout before the dispatch attempt
\* has finished, Log has written the timeout line and returns; the dispatch
\* task is not cancelled: it completes later, and if it fails its error is
\* written to the logger then.
C27_TimeoutLeavesTaskRunning ==
    /\ [](\A i \in 1..MaxLogCalls : TimedOut(i) => HasLine(i, "timeout"))
    /\ \A i \in 1..MaxLogCalls :
         (TimedOut(i) /\ logs[i].task # "finished") ~> CompletedLate(i)

C27_Witness ==
    \E i \in DOMAIN logs :
        /\ logs[i].mode = "Log"
        /\ CompletedLate(i)
        /\ logs[i].failed
        /\ logs[i].args.prio = 0

\* C28: Log does not wait for the answer of the service: its caller is
\* never held in logWait while the request of its dispatch is out.
C28_LogNeverWaits ==
    \A i \in DOMAIN logs :
        ~(/\ logs[i].mode = "Log"
          /\ logs[i].caller = "select"
          /\ logs[i].task = "sent"
          /\ logs[i].sent = 0)

\* C29: every call of Log and LogSync writes the line "title: body label"
\* to the logger exactly once, before its dispatch attempt starts and so
\* before any error or timeout line of the call.
C29_LineOnceAndFirst ==
    /\ DOMAIN logger = DOMAIN logs
    /\ \A i \in DOMAIN logs :
         /\ Len(logger[i]) >= 1
         /\ logger[i][1] = MkLine("line",
                                  logs[i].args.event \o <<":", " ">>
                                    \o logs[i].args.description \o <<" ">>
                                    \o defaultToProwlLabel)
         /\ \A k \in 2..Len(logger[i]) : logger[i][k].kind # "line"

C29_Witness ==
    \E i \in DOMAIN logs :
        /\ logs[i].task = "started"
        /\ Kinds(i) = <<"line">>
        /\ \E j \in DOMAIN logs : Kinds(j) = <<"line", "timeout", "error">>

\* C30: a call of Config that runs next to RetrieveToken, RetrieveAPIKey,
\* AddAPIKey or RemoveAPIKey returns a snapshot of the configuration as it
\* is before or after each of their changes: it returns, without a panic,
\* and what it returns is the configuration the client holds at its return.
C30_ExportIsSnapshot ==
    (last.kind = "local" /\ last.op = "Config")
        => /\ last.err = NoErr
           /\ last.cfg = clt.config

\* C32: the unauthorized flag is false at construction and, once true, no
\* operation on the client sets it back to false.
C32_UnauthorizedIsOneWay ==
    /\ []((last.kind = "new" /\ built = "ok") => ~clt.unauthorized)
    /\ [][(built = "ok" /\ clt.unauthorized) => clt'.unauthorized]_vars

\* a call has taken a success element on a client whose flag is set
C32_Witness ==
    /\ TookResponse
    /\ last.resp.success /\ ~last.resp.error /\ last.err = NoErr
    /\ clt.unauthorized

\* C33: every member of the client's set of keys is a string of exactly 40
\* characters; the empty string is never a member.
C33_KeysAreFortyLong ==
    built = "ok" => \A key \in clt.apiKeys : Len(key) = 40

\* C35: while apiKeysDirty is false, config.APIKeys has the members of the
\* set of keys; a call of Config returns a list with the members of the set
\* and leaves the flag false.
C35_CleanMeansExported ==
    /\ (built = "ok" /\ ~clt.apiKeysDirty) => Range(clt.config.APIKeys) = clt.apiKeys
    /\ (last.kind = "local" /\ last.op = "Config")
          => /\ Range(last.cfg.APIKeys) = clt.apiKeys
             /\ ~clt.apiKeysDirty

\* C38: an Add call that passes the other local checks is sent once the
\* time has reached the stored reset time, also when remaining is still at
\* or below zero; and the first Add on a client just constructed is never
\* rejected for spent requests.
C38_RateLimitIsTemporary ==
    /\ (AddCalled /\ ~FailsLocalCheck(clt, last.args) /\ now >= clt.reset) => AddSent
    /\ (last.kind = "new" /\ built = "ok")
          => \A a \in AddArgs, t \in now..MaxTime :
                AddPrecondition(clt, a, t) # "api requests spent"

C38_Witness ==
    /\ AddSent
    /\ clt.remaining <= 0
    /\ now >= clt.reset

\* C34: the stored token is empty or exactly 40 characters long, whatever
\* token the service returns to RetrieveToken; the provider key is empty
\* or 40 characters long.
C34_TokenIsEmptyOrForty ==
    built = "ok"
        => /\ Len(clt.config.Token) \in {0, 40}
           /\ Len(clt.config.ProviderKey) \in {0, 40}

\* C36: on a client constructed without keys that has got a key by
\* RetrieveToken and RetrieveAPIKey, an Add call that passes the other
\* local checks is sent, and its request carries the issued key.
C36_IssuedKeyIsUsable ==
    (/\ AddCalled
     /\ Len(clt.config.APIKeys) = 0 /\ clt.apiKeys # {}
     /\ ~clt.unauthorized
     /\ last.args.prio >= -2 /\ last.args.prio <= 2
     /\ Len(last.args.event) <= 1024 /\ Len(last.args.description) <= 10000
     /\ Len(last.args.withURL) <= 256
     /\ ~(clt.remaining <= 0 /\ clt.reset > now))
        => /\ AddSent
           /\ last.req.apikey = IssuedKey

\* C39: the send of prowlf on its channel never blocks: the channel never
\* holds more than the one value it has room for, every dispatch task
\* finishes, whether or not the select of Log has timed out before, and
\* every call of LogSync returns.
C39_SendNeverBlocks ==
    /\ [](\A i \in 1..MaxLogCalls : i \in DOMAIN logs => logs[i].sent <= 1)
    /\ \A i \in 1..MaxLogCalls :
         (i \in DOMAIN logs)
            ~> (/\ i \in DOMAIN logs
                /\ logs[i].task = "finished"
                /\ logs[i].mode = "LogSync" => logs[i].caller = "returned")

\* a task has finished after the timeout of its Log call, its value still
\* in the channel, and a call of LogSync has returned
C39_Witness ==
    /\ \E i \in DOMAIN logs :
         /\ logs[i].mode = "Log" /\ logs[i].caller = "timedout"
         /\ logs[i].task = "finished" /\ logs[i].sent = 1
    /\ \E j \in DOMAIN logs :
         /\ logs[j].mode = "LogSync" /\ logs[j].caller = "returned"
         /\ logs[j].sent = 1

\* C31: the writes of remaining, of the reset time, of the unauthorized flag
\* and of the set of keys are made under the client's lock: no two calls
\* are in the middle of storing their responses at the same time.
C31_WritesAreExclusive == BagCardinality(writing) <= 1

\* the pairs of remaining and reset time that one response, or NewClient,
\* gives the client
SinglePairs ==
    {<<resp.remaining, resp.resetdate>> : resp \in {r \in Responses : r.success}}
        \cup {<<DefaultRemaining, t>> : t \in 0..MaxTime}

\* C37: remaining and the reset time of the client are those of one single
\* response, or those set by NewClient, also with Add and Verify calls
\* running at the same time: whenever no call is in the middle of storing
\* its response, the remaining of one response does not stand next to the
\* reset time of another.
C37_LimitsAreOnePair ==
    (built = "ok" /\ writing = EmptyBag) => <<clt.remaining, clt.reset>> \in SinglePairs

====
